---- MODULE Spec2Model ----
(***************************************************************************)
(* The conversation orchestration engine of mcp-client:                    *)
(*   LLMClient      (src/src/mcp_client/llm_client.py)     the transcript  *)
(*   ToolManager    (src/src/mcp_client/tool_manager.py)   tool dispatch   *)
(*   ChatProcessor  (src/src/mcp_client/chat_processor.py) the tool loop   *)
(*   MCPSession     (src/src/mcp_client/mcp_session.py)    the provider    *)
(*   MCPClient      (src/examples/basic_client.py)         the client      *)
(*                                                                         *)
(* The coroutines are cut at their awaits: one action is the code that     *)
(* runs between two suspension points.  The language model and the tool    *)
(* provider are the environment: their replies, results and failures are   *)
(* chosen nondeterministically.                                            *)
(***************************************************************************)
EXTENDS Integers, Sequences, FiniteSets, TLC

VARIABLES
    messages,           \* LLMClient.messages: the transcript
    origin,             \* history: who appended messages[i] ("init", "api", "query", "prompt", "loop")
    pc,                 \* "idle", or the await the running invocation is suspended at
    iteration,          \* _execute_with_tools: the loop variable of range(max_iterations)
    final_text,         \* _execute_with_tools: the accumulated output segments
    assistant_message,  \* _execute_with_tools: the reply being processed (the last reply)
    tc,                 \* index in assistant_message.tool_calls of the call in flight
    tool_args,          \* _execute_with_tools: the decoded arguments of the call in flight
    result,             \* how the last operation ended: returned a value or raised
    lastOp,             \* history: the last operation called on the client
    gatewayCalls,       \* history: Model Gateway calls issued by the current invocation
    toolCalls,          \* history: ToolManager.call_tool calls of the current invocation
    invoked,            \* history: ids passed to call_tool for the current reply, in order
    onlySingles,        \* history: every reply of this invocation requested exactly one call
    varied,             \* environment: non-default choices made so far in this run
    session,            \* MCPSession.session: None until MCPSession.connect has set it
    chat_processor,     \* MCPClient.chat_processor (and prompt_manager, set with it)
    provider_tools,     \* environment: the tools the provider advertises
    available_tools,    \* process_query: the schema of the last tool listing
    request,            \* history: the last Model Gateway request of this invocation
    inflight,           \* history: the requests outstanding on the provider session
    listings,           \* history: tool-listing requests issued by the current invocation
    base,               \* history: the transcript length when _execute_with_tools began
    model,              \* LLMClient.model: the configured model identifier
    tasks,              \* concurrent invocations: where each coroutine is, and its history
    frames,             \* concurrent invocations: the locals of each coroutine
    chat_loop           \* MCPClient.chat_loop: at input(), at an await, or exited

vars == <<messages, origin, pc, iteration, final_text, assistant_message, tc, tool_args,
          result, lastOp, gatewayCalls, toolCalls, invoked, onlySingles, varied,
          session, chat_processor, provider_tools, available_tools, request, inflight,
          listings, base, model, tasks, frames, chat_loop>>
\* the state of the concurrent invocations (constant where one caller runs one at a time)
concVars == <<tasks, frames, chat_loop>>
\* the connection state of the client, the provider's tool set and the configuration
envVars == <<session, chat_processor, provider_tools, model, concVars>>

(***************************************************************************)
(* Bounds of the model and constants of the program.                       *)
(***************************************************************************)
\* for iteration in range(max_iterations)
max_iterations == 10
\* the most tool-call requests one model reply carries
MaxCalls == 3
\* the most non-default choices the caller, the model and the provider make in one
\* run; the model and the provider make them in the first MaxVaried iterations
MaxVaried == 2
\* an operation is started only on a transcript of at most this many messages
MaxStart == 2

(***************************************************************************)
(* Python values.  Optional values are None or Some(x); a value whose text *)
(* form matters (str(x), an f-string) is kept as its type and its text.    *)
(***************************************************************************)
None == <<>>
Some(x) == <<x>>
\* "if x:" on an Optional[str]
TruthyStr(o) == o # None /\ o[1] # ""
\* "if x:" on an Optional[list]
TruthyList(o) == o # None /\ Len(o[1]) > 0

PyStr(text) == [type |-> "str", repr |-> text]
PyDict(text) == [type |-> "dict", repr |-> text]
PyList(text) == [type |-> "list", repr |-> text]
PyNone == [type |-> "NoneType", repr |-> "None"]
\* str(x)
str(x) == x.repr

\* json.loads on the argument texts a model reply carries
MappingText == "{}"
ListText == "[1]"
MalformedText == "{"
json_loads(text) ==
    CASE text = MappingText -> [ok |-> TRUE, value |-> PyDict("{}")]
      [] text = ListText -> [ok |-> TRUE, value |-> PyList("[1]")]
      [] OTHER -> [ok |-> FALSE, value |-> PyStr(text)]

RECURSIVE Join(_)
\* "\n".join(segments)
Join(segments) ==
    IF segments = <<>> THEN ""
    ELSE IF Len(segments) = 1 THEN segments[1]
    ELSE segments[1] \o "\n" \o Join(Tail(segments))

(***************************************************************************)
(* Messages of the transcript.                                             *)
(***************************************************************************)
Roles == {"system", "user", "assistant", "tool"}
SystemPrompt == "You are an intelligent assistant"

Message(role, content, tool_calls, tool_call_id) ==
    [role |-> role, content |-> content, tool_calls |-> tool_calls,
     tool_call_id |-> tool_call_id]
\* {"role": role, "content": content}
PlainMessage(role, content) == Message(role, Some(content), None, None)
\* a faulty dump that keeps only the text of the reply
model_dump_content_only(reply) == Message("assistant", reply.content, None, None)
\* assistant_message.model_dump()
model_dump(reply) == Message("assistant", reply.content, reply.tool_calls, None)
\* a faulty tool message that carries an id no reply of the transcript has requested
ToolMessageOtherId(tool_call, res) ==
    Message("tool", Some(str(res.content)), None, Some(tool_call.id + MaxCalls))
\* a faulty tool message that carries the content of a result only when it is no error
ToolMessageOnSuccess(tool_call, res) ==
    Message("tool", Some(IF res.isError THEN "" ELSE str(res.content)), None,
            Some(tool_call.id))
\* a faulty tool message that stores a payload that is no list as it is: None stays None
ToolMessageAsIs(tool_call, res) ==
    Message("tool", IF res.content.type = "list" THEN Some(str(res.content)) ELSE None, None,
            Some(tool_call.id))
\* {"role": "tool", "tool_call_id": tool_call.id, "content": str(result.content)}
ToolMessage(tool_call, res) == Message("tool", Some(str(res.content)), None, Some(tool_call.id))

(***************************************************************************)
(* The environment: what the model may reply and the provider may return.  *)
(***************************************************************************)
KnownTool == "get_forecast"
UnknownTool == "nonexistent_tool"
PlainCall == [name |-> KnownTool, arguments |-> PyStr(MappingText)]
CallKinds ==
    { PlainCall,
      [name |-> KnownTool, arguments |-> PyDict("{}")],
      [name |-> KnownTool, arguments |-> PyStr(MalformedText)],
      [name |-> KnownTool, arguments |-> PyStr(ListText)],
      [name |-> UnknownTool, arguments |-> PyStr(MappingText)] }
\* the call lists of 1..MaxCalls calls of which at most n are not PlainCall
CallSeqs(n) ==
    UNION { UNION { { [k \in 1..len |-> IF k \in D THEN f[k] ELSE PlainCall] :
                        f \in [D -> CallKinds \ {PlainCall}] } :
                    D \in {D \in SUBSET (1..len) : Cardinality(D) <= n} } :
            len \in 1..MaxCalls }

ReplyText == "Here is the forecast"
Contents == {None, Some(""), Some(ReplyText)}

\* the ids the model gives the calls of a reply are new to the transcript
FreshId(k) == Len(messages) * MaxCalls + k
WithIds(calls) ==
    [k \in 1..Len(calls) |->
        [id |-> FreshId(k), name |-> calls[k].name, arguments |-> calls[k].arguments]]
\* the replies the model may give when n more non-default choices are allowed
Replies(n) ==
    { [content |-> c, tool_calls |-> t] :
        c \in Contents,
        t \in {None, Some(<<>>)} \cup { Some(WithIds(s)) : s \in CallSeqs(n) } }

\* the tools a provider may advertise (mcp.types.Tool: name, description, inputSchema)
Tool(name, description) ==
    [name |-> name, description |-> description, inputSchema |-> PyDict("{'type': 'object'}")]
ForecastTool == Tool(KnownTool, "Get the weather forecast")
AlertsTool == Tool("get_alerts", "Get the weather alerts")
ToolSets == {<<>>, <<ForecastTool>>, <<ForecastTool, AlertsTool>>}
ToolNames(tools) == {tools[k].name : k \in 1..Len(tools)}

OkResult == [content |-> PyList("[TextContent(text='Sunny')]"), isError |-> FALSE]
ErrResult == [content |-> PyList("[TextContent(text='Error executing tool')]"), isError |-> TRUE]
\* a result whose payload is no list of content blocks
NoneResult == [content |-> PyNone, isError |-> FALSE]
\* what the provider session may return for call_tool(name, arguments)
ProviderResults(name, arguments) ==
    IF name \in ToolNames(provider_tools) /\ arguments.type = "dict"
    THEN {OkResult, ErrResult, NoneResult}
    ELSE {ErrResult}

\* the number of non-default choices in a reply; the default replies are a final
\* text reply and, while the run has made no other choice, a reply without text that
\* requests one well-formed call
CallCost(calls) == Cardinality({k \in 1..Len(calls) :
    [name |-> calls[k].name, arguments |-> calls[k].arguments] # PlainCall})
ReplyCost(reply) ==
    IF TruthyList(reply.tool_calls)
    THEN (IF reply.content # None THEN 1 ELSE 0)
         + (IF Len(reply.tool_calls[1]) > 1 \/ varied > 0 THEN 1 ELSE 0)
         + CallCost(reply.tool_calls[1])
    ELSE (IF reply.content # Some(ReplyText) THEN 1 ELSE 0)
         + (IF reply.tool_calls # None THEN 1 ELSE 0)
\* an error result where the provider could have succeeded is a non-default choice
ResultCost(res, results) == IF res = OkResult \/ results = {res} THEN 0 ELSE 1
\* starting an operation on a transcript that holds more than the system prompt is one
StartCost == IF Len(messages) > 1 THEN 1 ELSE 0
\* the environment may make n more non-default choices in iteration i
MayVary(n, i) == n = 0 \/ (varied + n <= MaxVaried /\ i < MaxVaried)

(***************************************************************************)
(* How an operation ends.                                                  *)
(***************************************************************************)
Running == [status |-> "running", value |-> ""]
Returned(value) == [status |-> "returned", value |-> value]
Raised(exception) == [status |-> "raised", value |-> exception]
Op(name, arg) == [op |-> name, arg |-> arg]

NoReply == [content |-> None, tool_calls |-> None]
NoArgs == PyStr("")

(***************************************************************************)
(* The requests on the provider session and on the Model Gateway.          *)
(***************************************************************************)
ListToolsRequest == [method |-> "tools/list", id |-> 0]
CallToolRequest(id) == [method |-> "tools/call", id |-> id]
ListPromptsRequest == [method |-> "prompts/list", id |-> 0]
GetPromptRequest == [method |-> "prompts/get", id |-> 0]
\* "await self.session.<request>(...)": the request is outstanding from the call
Issue(reqs, r) == reqs \cup {r}
\* a faulty await that leaves the request outstanding when the coroutine goes on
Forgotten(reqs, r) == reqs
\* the await is over (a result or an exception): the request is no longer outstanding
Complete(reqs, r) == reqs \ {r}

\* a faulty conversion that returns the entries last to first
get_tools_reversed(tools) ==
    [k \in 1..Len(tools) |->
        [type |-> "function",
         function |-> [name |-> tools[Len(tools) + 1 - k].name,
                       description |-> tools[Len(tools) + 1 - k].description,
                       parameters |-> tools[Len(tools) + 1 - k].inputSchema]]]
\* ToolManager.get_tools_for_openai: the listed tools in function-calling format
get_tools_for_openai(tools) ==
    [k \in 1..Len(tools) |->
        [type |-> "function",
         function |-> [name |-> tools[k].name,
                       description |-> tools[k].description,
                       parameters |-> tools[k].inputSchema]]]

\* a faulty request that passes the schema on as it is, an empty list too
tools_as_given(tools) == Some(tools)
\* LLMClient.chat_completion: "tools=tools if tools else None"
tools_param(tools) == IF tools # <<>> THEN Some(tools) ELSE None
\* the default of LLMClient.__init__, and another identifier a caller may configure
DefaultModel == "anthropic/claude-3-5-sonnet-20241022"
OtherModel == "moonshotai/kimi-k2"
ModelNames == {DefaultModel, OtherModel}
\* a faulty request that names the default model whatever is configured
ChatRequestDefaultModel(msgs, tools) ==
    [model |-> DefaultModel, messages |-> msgs, tools |-> tools_param(tools)]
\* a faulty request that leaves out the message appended last
ChatRequestWithoutLast(msgs, tools) ==
    [model |-> model, messages |-> SubSeq(msgs, 1, Len(msgs) - 1),
     tools |-> tools_param(tools)]
\* LLMClient.chat_completion: the request sent to the Model Gateway
ChatRequest(msgs, tools) ==
    [model |-> model, messages |-> msgs, tools |-> tools_param(tools)]
NoRequest == [model |-> "", messages |-> <<>>, tools |-> None]

Init ==
    \* LLMClient.__init__: the transcript starts with the system prompt
    /\ messages = <<PlainMessage("system", SystemPrompt)>>
    /\ origin = <<"init">>
    /\ pc = "idle"
    /\ iteration = 0
    /\ final_text = <<>>
    /\ assistant_message = NoReply
    /\ tc = 0
    /\ tool_args = NoArgs
    /\ result = Returned("")
    /\ lastOp = Op("__init__", "")
    /\ gatewayCalls = 0
    /\ toolCalls = 0
    /\ invoked = <<>>
    /\ onlySingles = TRUE
    /\ varied = 0
    \* MCPSession.__init__ and MCPClient.__init__: nothing is connected
    /\ session = None
    /\ chat_processor = None
    /\ provider_tools = <<ForecastTool>>
    /\ available_tools = <<>>
    /\ request = NoRequest
    /\ inflight = {}
    /\ listings = 0
    /\ base = 0
    \* LLMClient.__init__(model="anthropic/claude-3-5-sonnet-20241022")
    /\ model = DefaultModel
    /\ tasks = <<>>
    /\ frames = <<>>
    /\ chat_loop = None

(***************************************************************************)
(* LLMClient: the operations on the transcript.                            *)
(***************************************************************************)
\* a faulty extend that puts the new messages in front
ExtendInFront(msgs, who) ==
    /\ messages' = msgs \o messages
    /\ origin' = [i \in 1..Len(msgs) |-> who] \o origin
\* the transcript after messages.extend(msgs), and who appended
Extend(msgs, who) ==
    /\ messages' = messages \o msgs
    /\ origin' = origin \o [i \in 1..Len(msgs) |-> who]

\* the locals and the history of an invocation, as a new invocation finds them
ResetInvocation ==
    /\ iteration' = 0
    /\ final_text' = <<>>
    /\ assistant_message' = NoReply
    /\ tc' = 0
    /\ tool_args' = NoArgs
    /\ gatewayCalls' = 0
    /\ toolCalls' = 0
    /\ invoked' = <<>>
    /\ onlySingles' = TRUE
    /\ request' = NoRequest
    /\ base' = 0

UserText == "What is the weather in Paris?"
\* the content a caller gives a message of each role
ContentOf(role) == IF role = "system" THEN "Be brief" ELSE UserText

\* LLMClient.add_message(role, content), called directly
add_message ==
    /\ pc = "idle"
    /\ Len(messages) <= MaxStart
    /\ varied < MaxVaried
    /\ \E role \in Roles :
        /\ Extend(<<PlainMessage(role, ContentOf(role))>>, "api")
        /\ lastOp' = Op("add_message", role)
    /\ result' = Returned("")
    /\ varied' = varied + 1
    /\ ResetInvocation
    /\ listings' = 0
    /\ UNCHANGED <<pc, envVars, available_tools, inflight>>

\* LLMClient.add_messages(messages), called directly
add_messages ==
    /\ pc = "idle"
    /\ \E r1 \in Roles, r2 \in Roles :
        LET msgs == <<PlainMessage(r1, ContentOf(r1)), PlainMessage(r2, ContentOf(r2))>>
        IN /\ Len(messages) + Len(msgs) <= MaxStart + 1
           /\ varied + Len(msgs) <= MaxVaried
           /\ Extend(msgs, "api")
           /\ varied' = varied + Len(msgs)
           /\ lastOp' = Op("add_messages", r1)
    /\ result' = Returned("")
    /\ ResetInvocation
    /\ listings' = 0
    /\ UNCHANGED <<pc, envVars, available_tools, inflight>>

\* a faulty clear_history that does not put the system prompt back
cleared_all(msgs) == <<>>
\* the transcript LLMClient.clear_history leaves
cleared(msgs) ==
    LET system_prompt ==
            IF msgs # <<>> /\ msgs[1].role = "system" THEN Some(msgs[1]) ELSE None
    IN IF system_prompt # None THEN <<system_prompt[1]>> ELSE <<>>

\* LLMClient.clear_history()
clear_history ==
    /\ pc = "idle"
    /\ messages' = cleared(messages)
    /\ origin' = SubSeq(origin, 1, Len(cleared(messages)))
    /\ lastOp' = Op("clear_history", IF Len(messages) > 1 THEN "shortened" ELSE "unchanged")
    /\ result' = Returned("")
    /\ ResetInvocation
    /\ listings' = 0
    /\ UNCHANGED <<pc, varied, envVars, available_tools, inflight>>

\* LLMClient.set_model(model)
set_model ==
    /\ pc = "idle"
    /\ varied < MaxVaried
    /\ varied' = varied + 1
    /\ \E name \in ModelNames :
        /\ model' = name
        /\ lastOp' = Op("set_model", name)
    /\ result' = Returned("")
    /\ ResetInvocation
    /\ listings' = 0
    /\ UNCHANGED <<messages, origin, pc, session, chat_processor, provider_tools,
                   available_tools, inflight, concVars>>

(***************************************************************************)
(* The provider and the connection to it.                                  *)
(***************************************************************************)
\* the provider starts to advertise another tool set
provider_changes_tools ==
    /\ MayVary(1, IF pc = "idle" THEN 0 ELSE iteration)
    /\ varied' = varied + 1
    /\ \E tools \in ToolSets \ {provider_tools} : provider_tools' = tools
    /\ UNCHANGED <<messages, origin, pc, iteration, final_text, assistant_message, tc,
                   tool_args, result, lastOp, gatewayCalls, toolCalls, invoked, onlySingles,
                   session, chat_processor, available_tools, request, inflight, listings,
                   base, model, concVars>>

\* MCPClient.connect_to_server: MCPSession.connect fails before it has set the session
\* ("early"), fails after that ("late"), or succeeds and the managers are created
connect_to_server ==
    /\ pc = "idle"
    /\ chat_processor = None
    /\ \E outcome \in {"early", "late", "connected"} :
        /\ MayVary(IF outcome = "late" THEN 1 ELSE 0, 0)
        /\ varied' = varied + (IF outcome = "late" THEN 1 ELSE 0)
        /\ session' = IF outcome = "early" THEN session ELSE Some("ClientSession")
        /\ chat_processor' = IF outcome = "connected" THEN Some("ChatProcessor") ELSE None
        /\ lastOp' = Op("connect_to_server", outcome)
        /\ result' = IF outcome = "connected" THEN Returned("") ELSE Raised("ConnectError")
    /\ ResetInvocation
    /\ listings' = 0
    /\ UNCHANGED <<messages, origin, pc, provider_tools, available_tools, inflight,
                   model, concVars>>

(***************************************************************************)
(* ChatProcessor: the tool loop, cut at its awaits.                        *)
(***************************************************************************)
\* "await self.tool_manager.get_tools_for_openai()": MCPSession.list_tools issues the
\* listing request, or fails on "self.session.list_tools" when the session is None
\* (reqs: the requests outstanding when the listing starts)
StartListing(reqs) ==
    IF session = None
    THEN /\ pc' = "idle"
         /\ result' = Raised("AttributeError")
         /\ listings' = 0
         /\ inflight' = reqs
    ELSE /\ pc' = "listing"
         /\ result' = Running
         /\ listings' = 1
         /\ inflight' = Issue(reqs, ListToolsRequest)

\* a faulty process_query that adds the query to the transcript twice
process_query_twice ==
    /\ pc = "idle"
    /\ Len(messages) <= MaxStart
    /\ MayVary(StartCost, 0)
    /\ varied' = varied + StartCost
    /\ Extend(<<PlainMessage("user", UserText), PlainMessage("user", UserText)>>, "query")
    /\ lastOp' = Op("process_query", UserText)
    /\ ResetInvocation
    /\ StartListing(inflight)
    /\ UNCHANGED <<envVars, available_tools>>

\* ChatProcessor.process_query up to "await self.tool_manager.get_tools_for_openai()"
process_query ==
    /\ pc = "idle"
    /\ Len(messages) <= MaxStart
    /\ MayVary(StartCost, 0)
    /\ varied' = varied + StartCost
    /\ Extend(<<PlainMessage("user", UserText)>>, "query")
    /\ lastOp' = Op("process_query", UserText)
    /\ ResetInvocation
    /\ StartListing(inflight)
    /\ UNCHANGED <<envVars, available_tools>>

\* ChatProcessor.process_from_existing_messages up to the same await
process_from_existing_messages ==
    /\ pc = "idle"
    /\ Len(messages) <= MaxStart
    /\ MayVary(StartCost, 0)
    /\ varied' = varied + StartCost
    /\ lastOp' = Op("process_from_existing_messages", "")
    /\ ResetInvocation
    /\ StartListing(inflight)
    /\ UNCHANGED <<messages, origin, envVars, available_tools>>

\* the tool listing fails: the exception leaves the invocation
list_tools_raises ==
    /\ pc = "listing"
    /\ pc' = "idle"
    /\ result' = Raised("ProviderError")
    /\ inflight' = Complete(inflight, ListToolsRequest)
    /\ UNCHANGED <<messages, origin, iteration, final_text, assistant_message, tc, tool_args,
                   lastOp, gatewayCalls, toolCalls, invoked, onlySingles, varied, envVars,
                   available_tools, request, listings, base>>

\* the tool listing returns: _execute_with_tools starts and awaits the first reply
list_tools_returns ==
    /\ pc = "listing"
    /\ final_text' = <<>>
    /\ iteration' = 0
    /\ pc' = "model"
    /\ gatewayCalls' = gatewayCalls + 1
    /\ inflight' = Complete(inflight, ListToolsRequest)
    /\ available_tools' = get_tools_for_openai(provider_tools)
    /\ request' = ChatRequest(messages, get_tools_for_openai(provider_tools))
    /\ base' = Len(messages)
    /\ UNCHANGED <<messages, origin, assistant_message, tc, tool_args, result, lastOp,
                   toolCalls, invoked, onlySingles, varied, envVars, listings>>

\* a faulty check that takes a set field for a non-empty list
has_tool_calls_field(reply) == reply.tool_calls # None
\* "if not assistant_message.tool_calls" is false
has_tool_calls(reply) == TruthyList(reply.tool_calls)

\* a faulty loop that takes the calls of a reply last to first
tool_call_reversed(reply, k) == reply.tool_calls[1][Len(reply.tool_calls[1]) + 1 - k]

\* line 56: "for tool_call in assistant_message.tool_calls" at its k-th turn
tool_call_at(reply, k) == reply.tool_calls[1][k]

\* lines 57-62: the arguments as passed to call_tool, or the failure of json.loads
Decode(arguments) ==
    IF arguments.type = "str" THEN json_loads(arguments.repr)
    ELSE [ok |-> TRUE, value |-> arguments]

\* lines 56-65: the for loop reaches call k of the reply, decodes its arguments and
\* awaits call_tool; a failure of json.loads leaves the invocation
DispatchCall(reply, k) ==
    LET tool_call == tool_call_at(reply, k)
        decoded == Decode(tool_call.arguments)
        before == IF k = 1 THEN <<>> ELSE invoked
        returned ==
            IF k = 1 THEN inflight
            ELSE Complete(inflight, CallToolRequest(tool_call_at(reply, k - 1).id))
    IN /\ tc' = k
       /\ IF decoded.ok
          THEN /\ pc' = "tool"
               /\ tool_args' = decoded.value
               /\ toolCalls' = toolCalls + 1
               /\ invoked' = Append(before, tool_call.id)
               /\ inflight' = Issue(returned, CallToolRequest(tool_call.id))
               /\ result' = Running
          ELSE /\ pc' = "idle"
               /\ tool_args' = NoArgs
               /\ toolCalls' = toolCalls
               /\ invoked' = before
               /\ inflight' = returned
               /\ result' = Raised("JSONDecodeError")

\* a faulty loop bound that allows one iteration more
LoopContinuesOneMore(i) == i + 1 <= max_iterations
\* a faulty loop bound that stops one iteration early
LoopContinuesOneLess(i) == i + 2 < max_iterations

\* line 37: range(max_iterations) has a next value after i
LoopContinues(i) == i + 1 < max_iterations

\* a faulty loop that lists the tools again for every Model Gateway call after the first
NextIterationListingAgain(text) ==
    IF LoopContinues(iteration)
    THEN /\ iteration' = iteration + 1
         /\ pc' = "model"
         /\ gatewayCalls' = gatewayCalls + 1
         /\ request' = ChatRequest(messages', get_tools_for_openai(provider_tools))
         /\ result' = Running
    ELSE /\ pc' = "idle"
         /\ result' = Returned(Join(text))
         /\ UNCHANGED <<iteration, gatewayCalls, request>>

\* lines 37-39 and 78: the next iteration awaits chat_completion(available_tools), or
\* the loop is exhausted and the joined text is returned
NextIteration(text) ==
    IF LoopContinues(iteration)
    THEN /\ iteration' = iteration + 1
         /\ pc' = "model"
         /\ gatewayCalls' = gatewayCalls + 1
         /\ request' = ChatRequest(messages', available_tools)
         /\ result' = Running
    ELSE /\ pc' = "idle"
         /\ result' = Returned(Join(text))
         /\ UNCHANGED <<iteration, gatewayCalls, request>>

\* a faulty loop that drops the text of the replies
WithoutContent(text, reply) == text
\* a faulty loop that puts the text of a reply in front of the output
WithContentFirst(text, reply) ==
    IF TruthyStr(reply.content) THEN <<reply.content[1]>> \o text ELSE text
\* lines 42-44: the text of the reply is added to the output
WithContent(text, reply) ==
    IF TruthyStr(reply.content) THEN Append(text, reply.content[1]) ELSE text

\* chat_completion returns a reply: lines 40-65 up to the next await
chat_completion_returns ==
    /\ pc = "model"
    /\ \E reply \in Replies(IF iteration < MaxVaried THEN MaxVaried - varied ELSE 0) :
        /\ MayVary(ReplyCost(reply), iteration)
        /\ varied' = varied + ReplyCost(reply)
        /\ assistant_message' = reply
        /\ final_text' = WithContent(final_text, reply)
        /\ Extend(<<model_dump(reply)>>, "loop")
        /\ onlySingles' = (onlySingles /\ has_tool_calls(reply) /\ Len(reply.tool_calls[1]) = 1)
        /\ IF ~has_tool_calls(reply)
           THEN /\ pc' = "idle"
                /\ result' = Returned(Join(WithContent(final_text, reply)))
                /\ UNCHANGED <<iteration, gatewayCalls, request, tc, tool_args, toolCalls,
                               invoked, inflight>>
           ELSE IF Len(reply.tool_calls[1]) > 0
           THEN /\ DispatchCall(reply, 1)
                /\ UNCHANGED <<iteration, gatewayCalls, request>>
           \* the for loop of line 56 has no turn
           ELSE /\ NextIteration(WithContent(final_text, reply))
                /\ UNCHANGED <<tc, tool_args, toolCalls, invoked, inflight>>
    /\ UNCHANGED <<lastOp, envVars, available_tools, listings, base>>

\* a faulty call that is made again when it has failed
chat_completion_retried ==
    /\ pc = "model"
    /\ gatewayCalls = iteration + 1
    /\ gatewayCalls' = gatewayCalls + 1
    /\ UNCHANGED <<messages, origin, pc, iteration, final_text, assistant_message, tc,
                   tool_args, result, lastOp, toolCalls, invoked, onlySingles, varied,
                   envVars, available_tools, request, inflight, listings, base>>

\* chat_completion raises: the exception leaves the invocation
chat_completion_raises ==
    /\ pc = "model"
    /\ pc' = "idle"
    /\ result' = Raised("APIError")
    /\ UNCHANGED <<messages, origin, iteration, final_text, assistant_message, tc, tool_args,
                   lastOp, gatewayCalls, toolCalls, invoked, onlySingles, varied, envVars,
                   available_tools, request, inflight, listings, base>>

\* ToolManager.format_tool_result
format_tool_result(tool_name, arguments, res) ==
    "[Calling tool " \o tool_name \o " with args " \o str(arguments) \o "]"

\* a faulty loop that stores no tool message for a result that is an error
call_tool_returns_unrecorded ==
    /\ pc = "tool"
    /\ LET tool_calls == assistant_message.tool_calls[1]
           tool_call == tool_call_at(assistant_message, tc)
           results == ProviderResults(tool_call.name, tool_args)
       IN \E res \in results :
            /\ MayVary(ResultCost(res, results), iteration)
            /\ varied' = varied + ResultCost(res, results)
            /\ final_text' = Append(final_text, format_tool_result(tool_call.name, tool_args, res))
            /\ IF res.isError
               THEN UNCHANGED <<messages, origin>>
               ELSE Extend(<<ToolMessage(tool_call, res)>>, "loop")
            /\ IF tc < Len(tool_calls)
               THEN /\ DispatchCall(assistant_message, tc + 1)
                    /\ UNCHANGED <<iteration, gatewayCalls, request>>
               ELSE /\ NextIteration(Append(final_text,
                                            format_tool_result(tool_call.name, tool_args, res)))
                    /\ inflight' = Complete(inflight, CallToolRequest(tool_call.id))
                    /\ UNCHANGED <<tc, tool_args, toolCalls, invoked>>
    /\ UNCHANGED <<assistant_message, lastOp, onlySingles, envVars, available_tools,
                   listings, base>>

\* call_tool returns a result: lines 67-76, then the next call or the next iteration
call_tool_returns ==
    /\ pc = "tool"
    /\ LET tool_calls == assistant_message.tool_calls[1]
           tool_call == tool_call_at(assistant_message, tc)
           results == ProviderResults(tool_call.name, tool_args)
       IN \E res \in results :
            /\ MayVary(ResultCost(res, results), iteration)
            /\ varied' = varied + ResultCost(res, results)
            /\ final_text' = Append(final_text, format_tool_result(tool_call.name, tool_args, res))
            /\ Extend(<<ToolMessage(tool_call, res)>>, "loop")
            /\ IF tc < Len(tool_calls)
               THEN /\ DispatchCall(assistant_message, tc + 1)
                    /\ UNCHANGED <<iteration, gatewayCalls, request>>
               ELSE /\ NextIteration(Append(final_text,
                                            format_tool_result(tool_call.name, tool_args, res)))
                    /\ inflight' = Complete(inflight, CallToolRequest(tool_call.id))
                    /\ UNCHANGED <<tc, tool_args, toolCalls, invoked>>
    /\ UNCHANGED <<assistant_message, lastOp, onlySingles, envVars, available_tools,
                   listings, base>>

\* call_tool raises: ToolManager.call_tool and the loop have no handler
call_tool_raises ==
    /\ pc = "tool"
    /\ pc' = "idle"
    /\ result' = Raised("ToolError")
    /\ inflight' = Complete(inflight, CallToolRequest(tool_call_at(assistant_message, tc).id))
    /\ UNCHANGED <<messages, origin, iteration, final_text, assistant_message, tc, tool_args,
                   lastOp, gatewayCalls, toolCalls, invoked, onlySingles, varied, envVars,
                   available_tools, request, listings, base>>

(***************************************************************************)
(* MCPClient (examples/basic_client.py): the client over the components.   *)
(***************************************************************************)
PromptName == "forecast"
\* the messages of the prompt the provider returns for get_prompt
\* the content of a prompt message: with a text attribute or without one
TextContent(text) ==
    [type |-> "TextContent", text |-> Some(text), repr |-> "TextContent(text='" \o text \o "')"]
ImageContent == [type |-> "ImageContent", text |-> None, repr |-> "ImageContent(data='...')"]
PromptResult ==
    <<[role |-> "user", content |-> TextContent("Forecast for Paris, please")],
      [role |-> "assistant", content |-> ImageContent]>>
\* "if hasattr(message.content, 'text'): content = message.content.text / else: str(...)"
content_of(message) ==
    IF message.content.text # None THEN message.content.text[1] ELSE str(message.content)
\* a faulty conversion that returns the messages of the prompt last to first
format_prompt_messages_reversed(prompt_result) ==
    [k \in 1..Len(prompt_result) |->
        PlainMessage(prompt_result[Len(prompt_result) + 1 - k].role,
                     content_of(prompt_result[Len(prompt_result) + 1 - k]))]
\* PromptManager.format_prompt_messages
format_prompt_messages(prompt_result) ==
    [k \in 1..Len(prompt_result) |->
        PlainMessage(prompt_result[k].role, content_of(prompt_result[k]))]

\* a faulty guard that rejects the call after the query has been appended
RejectedLate(op, arg) ==
    /\ Extend(<<PlainMessage("user", UserText)>>, "query")
    /\ lastOp' = Op(op, arg)
    /\ result' = Raised("RuntimeError")
\* raise RuntimeError("Must connect to server first")
Rejected(op, arg) ==
    /\ lastOp' = Op(op, arg)
    /\ result' = Raised("RuntimeError")
    /\ UNCHANGED <<messages, origin>>

\* MCPClient.process_query (auto_include_resources is False, as __init__ sets it)
MCPClient_process_query ==
    IF chat_processor = None
    THEN /\ pc = "idle"
         /\ Rejected("MCPClient.process_query", UserText)
         /\ ResetInvocation
         /\ listings' = 0
         /\ UNCHANGED <<pc, varied, envVars, available_tools, inflight>>
    ELSE process_query

\* MCPClient.use_prompt up to "await self.prompt_manager.list_prompts()"
MCPClient_use_prompt ==
    /\ pc = "idle"
    /\ IF chat_processor = None
       THEN /\ Rejected("MCPClient.use_prompt", PromptName)
            /\ UNCHANGED <<pc, varied, inflight>>
       ELSE /\ Len(messages) <= MaxStart
            /\ MayVary(1, 0)
            /\ varied' = varied + 1
            /\ pc' = "prompts"
            /\ inflight' = Issue(inflight, ListPromptsRequest)
            /\ lastOp' = Op("MCPClient.use_prompt", PromptName)
            /\ result' = Running
            /\ UNCHANGED <<messages, origin>>
    /\ ResetInvocation
    /\ listings' = 0
    /\ UNCHANGED <<envVars, available_tools>>

\* list_prompts returns (an empty list when the request failed): the prompt is not
\* among the prompts, or it is, and use_prompt awaits get_prompt
list_prompts_returns ==
    /\ pc = "prompts"
    /\ \E found \in BOOLEAN :
        IF found
        THEN /\ pc' = "prompt"
             /\ inflight' = Issue(Complete(inflight, ListPromptsRequest), GetPromptRequest)
             /\ UNCHANGED result
        ELSE /\ pc' = "idle"
             /\ inflight' = Complete(inflight, ListPromptsRequest)
             /\ result' = Returned("Prompt '" \o PromptName \o "' not found.")
    /\ UNCHANGED <<messages, origin, iteration, final_text, assistant_message, tc, tool_args,
                   lastOp, gatewayCalls, toolCalls, invoked, onlySingles, varied, envVars,
                   available_tools, request, listings, base>>

\* get_prompt returns None (the request failed) or the prompt, whose messages are
\* added to the transcript before process_from_existing_messages is awaited
get_prompt_returns ==
    /\ pc = "prompt"
    /\ \E prompt_result \in {None, Some(PromptResult)} :
        IF prompt_result = None
        THEN /\ pc' = "idle"
             /\ inflight' = Complete(inflight, GetPromptRequest)
             /\ result' = Returned("Failed to get prompt.")
             /\ UNCHANGED <<messages, origin, lastOp, listings>>
        ELSE /\ Extend(format_prompt_messages(prompt_result[1]), "prompt")
             /\ lastOp' = Op("process_from_existing_messages", "")
             /\ StartListing(Complete(inflight, GetPromptRequest))
    /\ UNCHANGED <<iteration, final_text, assistant_message, tc, tool_args, gatewayCalls,
                   toolCalls, invoked, onlySingles, varied, envVars, available_tools,
                   request, base>>

Next ==
    \/ add_message
    \/ add_messages
    \/ clear_history
    \/ set_model
    \/ provider_changes_tools
    \/ connect_to_server
    \/ process_query
    \/ process_from_existing_messages
    \/ list_tools_raises
    \/ list_tools_returns
    \/ chat_completion_returns
    \/ chat_completion_raises
    \/ call_tool_returns
    \/ call_tool_raises
    \/ MCPClient_process_query
    \/ MCPClient_use_prompt
    \/ list_prompts_returns
    \/ get_prompt_returns

Spec == Init /\ [][Next]_vars

(***************************************************************************)
(* The monolithic client (src/client.py): MCPClient keeps the transcript   *)
(* itself and calls the Model Gateway before its loop and at the end of    *)
(* every iteration.  It is a program of its own, on the same variables.    *)
(***************************************************************************)
\* the model identifiers src/client.py writes into its requests
QueryModel == "anthropic/claude-3-5-sonnet-20241022"
PromptModel == "moonshotai/kimi-k2"
\* client.chat.completions.create(model=..., messages=self.messages, tools=...)
ClientRequest(name, msgs, tools) ==
    [model |-> name, messages |-> msgs, tools |-> tools_param(tools)]

InitClient ==
    \* MCPClient.__init__: self.messages = []; connect_to_server has set the session
    /\ messages = <<>>
    /\ origin = <<>>
    /\ pc = "idle"
    /\ iteration = 0
    /\ final_text = <<>>
    /\ assistant_message = NoReply
    /\ tc = 0
    /\ tool_args = NoArgs
    /\ result = Returned("")
    /\ lastOp = Op("connect_to_server", "connected")
    /\ gatewayCalls = 0
    /\ toolCalls = 0
    /\ invoked = <<>>
    /\ onlySingles = TRUE
    /\ varied = 0
    /\ session = Some("ClientSession")
    /\ chat_processor = None
    /\ provider_tools = <<ForecastTool>>
    /\ available_tools = <<>>
    /\ request = NoRequest
    /\ inflight = {}
    /\ listings = 0
    /\ base = 0
    /\ model = QueryModel
    /\ tasks = <<>>
    /\ frames = <<>>
    /\ chat_loop = None

\* MCPClient.process_query (include_resources=False) up to "await self.session.list_tools()"
client_process_query ==
    /\ pc = "idle"
    /\ Len(messages) <= MaxStart
    /\ MayVary(StartCost, 0)
    /\ varied' = varied + StartCost
    /\ Extend(<<PlainMessage("user", UserText)>>, "query")
    /\ lastOp' = Op("client.process_query", UserText)
    /\ ResetInvocation
    /\ StartListing(inflight)
    /\ UNCHANGED <<envVars, available_tools>>

\* the prompt handler has appended the messages of a prompt and awaits
\* MCPClient.process_query_from_messages, which runs up to the same await
client_process_query_from_messages ==
    /\ pc = "idle"
    /\ Len(messages) <= MaxStart
    /\ MayVary(StartCost, 0)
    /\ varied' = varied + StartCost
    /\ Extend(format_prompt_messages(PromptResult), "prompt")
    /\ lastOp' = Op("client.process_query_from_messages", "")
    /\ ResetInvocation
    /\ StartListing(inflight)
    /\ UNCHANGED <<envVars, available_tools>>

\* list_tools raises: the exception leaves the invocation
client_list_tools_raises ==
    /\ pc = "listing"
    /\ pc' = "idle"
    /\ result' = Raised("ProviderError")
    /\ inflight' = Complete(inflight, ListToolsRequest)
    /\ UNCHANGED <<messages, origin, iteration, final_text, assistant_message, tc, tool_args,
                   lastOp, gatewayCalls, toolCalls, invoked, onlySingles, varied, envVars,
                   available_tools, request, listings, base>>

\* list_tools returns: the initial request is sent, before the loop; process_query
\* and process_query_from_messages each write their own model identifier into it
client_list_tools_returns ==
    /\ pc = "listing"
    /\ final_text' = <<>>
    /\ iteration' = 0
    /\ pc' = "model"
    /\ gatewayCalls' = gatewayCalls + 1
    /\ inflight' = Complete(inflight, ListToolsRequest)
    /\ available_tools' = get_tools_for_openai(provider_tools)
    /\ request' = ClientRequest(IF lastOp.op = "client.process_query_from_messages"
                                THEN PromptModel ELSE QueryModel,
                                messages, get_tools_for_openai(provider_tools))
    /\ base' = Len(messages)
    /\ UNCHANGED <<messages, origin, assistant_message, tc, tool_args, result, lastOp,
                   toolCalls, invoked, onlySingles, varied, envVars, listings>>

\* the end of an iteration: the next request is sent whether or not range(max_iterations)
\* has a next value
ClientNextRequest ==
    /\ iteration' = iteration + 1
    /\ pc' = "model"
    /\ gatewayCalls' = gatewayCalls + 1
    /\ request' = ClientRequest(QueryModel, messages', available_tools)
    /\ result' = Running

\* chat.completions.create returns: the loop takes the reply, or the loop is exhausted
\* and the text is returned without a look at the reply
client_chat_completion_returns ==
    /\ pc = "model"
    /\ \E reply \in Replies(IF iteration < MaxVaried THEN MaxVaried - varied ELSE 0) :
        /\ MayVary(ReplyCost(reply), iteration)
        /\ varied' = varied + ReplyCost(reply)
        /\ assistant_message' = reply
        /\ onlySingles' = (onlySingles /\ has_tool_calls(reply) /\ Len(reply.tool_calls[1]) = 1)
        /\ IF iteration >= max_iterations
           THEN /\ pc' = "idle"
                /\ result' = Returned(Join(final_text))
                /\ UNCHANGED <<messages, origin, final_text, iteration, gatewayCalls, request,
                               tc, tool_args, toolCalls, invoked, inflight>>
           ELSE /\ final_text' = WithContent(final_text, reply)
                /\ Extend(<<model_dump(reply)>>, "loop")
                /\ IF ~has_tool_calls(reply)
                   THEN /\ pc' = "idle"
                        /\ result' = Returned(Join(WithContent(final_text, reply)))
                        /\ UNCHANGED <<iteration, gatewayCalls, request, tc, tool_args,
                                       toolCalls, invoked, inflight>>
                   ELSE /\ DispatchCall(reply, 1)
                        /\ UNCHANGED <<iteration, gatewayCalls, request>>
    /\ UNCHANGED <<lastOp, envVars, available_tools, listings, base>>

\* chat.completions.create raises: the exception leaves the invocation
client_chat_completion_raises ==
    /\ pc = "model"
    /\ pc' = "idle"
    /\ result' = Raised("APIError")
    /\ UNCHANGED <<messages, origin, iteration, final_text, assistant_message, tc, tool_args,
                   lastOp, gatewayCalls, toolCalls, invoked, onlySingles, varied, envVars,
                   available_tools, request, inflight, listings, base>>

\* session.call_tool returns: the trace and the tool message, then the next call of
\* the reply or the next request
client_call_tool_returns ==
    /\ pc = "tool"
    /\ LET tool_calls == assistant_message.tool_calls[1]
           tool_call == tool_call_at(assistant_message, tc)
           results == ProviderResults(tool_call.name, tool_args)
       IN \E res \in results :
            /\ MayVary(ResultCost(res, results), iteration)
            /\ varied' = varied + ResultCost(res, results)
            /\ final_text' = Append(final_text, format_tool_result(tool_call.name, tool_args, res))
            /\ Extend(<<ToolMessage(tool_call, res)>>, "loop")
            /\ IF tc < Len(tool_calls)
               THEN /\ DispatchCall(assistant_message, tc + 1)
                    /\ UNCHANGED <<iteration, gatewayCalls, request>>
               ELSE /\ ClientNextRequest
                    /\ inflight' = Complete(inflight, CallToolRequest(tool_call.id))
                    /\ UNCHANGED <<tc, tool_args, toolCalls, invoked>>
    /\ UNCHANGED <<assistant_message, lastOp, onlySingles, envVars, available_tools,
                   listings, base>>

\* session.call_tool raises: the exception leaves the invocation
client_call_tool_raises ==
    /\ pc = "tool"
    /\ pc' = "idle"
    /\ result' = Raised("ToolError")
    /\ inflight' = Complete(inflight, CallToolRequest(tool_call_at(assistant_message, tc).id))
    /\ UNCHANGED <<messages, origin, iteration, final_text, assistant_message, tc, tool_args,
                   lastOp, gatewayCalls, toolCalls, invoked, onlySingles, varied, envVars,
                   available_tools, request, listings, base>>

NextClient ==
    \/ client_process_query
    \/ client_process_query_from_messages
    \/ client_list_tools_raises
    \/ client_list_tools_returns
    \/ client_chat_completion_returns
    \/ client_chat_completion_raises
    \/ client_call_tool_returns
    \/ client_call_tool_raises

SpecClient == InitClient /\ [][NextClient]_vars

(***************************************************************************)
(* Concurrent invocations on one ChatProcessor.  Each call of              *)
(* process_query is a coroutine: tasks[s] is where coroutine s is          *)
(* suspended (and its history), frames[Frame(s)] holds its locals.  The    *)
(* transcript is shared.  The coroutines are started by a caller that does *)
(* not wait (SpecTasks), or by MCPClient.chat_loop (SpecChatLoop).         *)
(***************************************************************************)
Slots == {1, 2}
TaskTag(s) == IF s = 1 THEN "task1" ELSE "task2"
\* what the model and the provider answer to coroutine s can be told from what they
\* answer to the other one
TextFor(s) == IF s = 1 THEN "Sunny in Paris" ELSE "Rain in Oslo"
ToolFor(s) == IF s = 1 THEN "get_forecast" ELSE "get_alerts"
TaskReplies(s) ==
    { [content |-> c, tool_calls |-> None] : c \in {None, Some(TextFor(s))} }
    \cup { [content |-> c,
            tool_calls |-> Some(WithIds(<<[name |-> ToolFor(s),
                                           arguments |-> PyStr(MappingText)]>>))] :
             c \in {None, Some(TextFor(s))} }

NoTask ==
    [pc |-> "idle", reply |-> NoReply, result |-> Returned(""), own |-> <<>>, calls |-> 0]
NoFrame == [iteration |-> 0, final_text |-> <<>>]
\* chat_loop at a place, with the setting "auto-resources" last gave
At(where, s) ==
    [at |-> where, task |-> s, auto_include_resources |-> chat_loop.auto_include_resources,
     stdin |-> chat_loop.stdin, errors |-> chat_loop.errors]
Active(s) == tasks[s].pc \in {"context", "prompts", "prompt", "listing", "model", "tool"}

\* a faulty processor that keeps the loop variable and the output on the instance
SharedFrame(s) == 1
\* lines 34-37: final_text and iteration are locals of the call
Frame(s) == s

\* the variables of the one-caller model, which these programs leave alone
soloVars == <<pc, iteration, final_text, assistant_message, tc, tool_args, result, lastOp,
              gatewayCalls, toolCalls, invoked, onlySingles, session, chat_processor,
              provider_tools, available_tools, request, inflight, listings, base>>

InitTasks ==
    /\ messages = <<PlainMessage("system", SystemPrompt)>>
    /\ origin = <<"init">>
    /\ pc = "idle"
    /\ iteration = 0
    /\ final_text = <<>>
    /\ assistant_message = NoReply
    /\ tc = 0
    /\ tool_args = NoArgs
    /\ result = Returned("")
    /\ lastOp = Op("connect_to_server", "connected")
    /\ gatewayCalls = 0
    /\ toolCalls = 0
    /\ invoked = <<>>
    /\ onlySingles = TRUE
    /\ varied = 0
    /\ session = Some("ClientSession")
    /\ chat_processor = Some("ChatProcessor")
    /\ provider_tools = <<ForecastTool, AlertsTool>>
    /\ available_tools = <<>>
    /\ request = NoRequest
    /\ inflight = {}
    /\ listings = 0
    /\ base = 0
    /\ model = DefaultModel
    /\ tasks = [s \in Slots |-> NoTask]
    /\ frames = [s \in Slots |-> NoFrame]
    /\ chat_loop = [at |-> "input", task |-> 0, auto_include_resources |-> FALSE,
                    stdin |-> "open", errors |-> 0]

\* coroutine s starts: ChatProcessor.process_query up to the await of the tool listing
StartQuery(s, query) ==
    /\ Extend(<<PlainMessage("user", query)>>, TaskTag(s))
    /\ tasks' = [tasks EXCEPT ![s] = [NoTask EXCEPT !.pc = "listing", !.result = Running]]
    /\ UNCHANGED frames

\* a caller that does not wait for the coroutines starts one (asyncio.gather)
task_process_query(s) ==
    /\ tasks[s].pc = "idle"
    /\ StartQuery(s, UserText)
    /\ UNCHANGED <<soloVars, varied, model, chat_loop>>

\* the listing returns: _execute_with_tools sets its locals and awaits the first reply
task_list_tools_returns(s) ==
    /\ tasks[s].pc = "listing"
    /\ frames' = [frames EXCEPT ![Frame(s)] = NoFrame]
    /\ tasks' = [tasks EXCEPT ![s].pc = "model", ![s].calls = 1]
    /\ UNCHANGED <<soloVars, messages, origin, varied, model, chat_loop>>

\* lines 37-39 and 78 for coroutine s, with the locals it finds in its frame
TaskNextIteration(s, text) ==
    IF LoopContinues(frames[Frame(s)].iteration)
    THEN /\ frames' = [frames EXCEPT ![Frame(s)] =
                          [iteration |-> frames[Frame(s)].iteration + 1, final_text |-> text]]
         /\ tasks' = [tasks EXCEPT ![s].pc = "model", ![s].calls = @ + 1,
                                   ![s].own = Append(@, text[Len(text)])]
    ELSE /\ frames' = [frames EXCEPT ![Frame(s)].final_text = text]
         /\ tasks' = [tasks EXCEPT ![s].pc = "done", ![s].result = Returned(Join(text)),
                                   ![s].own = Append(@, text[Len(text)])]

\* chat_completion returns to coroutine s: lines 40-65 up to the next await
task_chat_completion_returns(s) ==
    /\ tasks[s].pc = "model"
    /\ \E reply \in TaskReplies(s) :
        LET cost == IF has_tool_calls(reply) THEN 1 ELSE 0
            text == WithContent(frames[Frame(s)].final_text, reply)
            own == WithContent(tasks[s].own, reply)
        IN /\ varied + cost <= MaxVaried
           /\ varied' = varied + cost
           /\ Extend(<<model_dump(reply)>>, TaskTag(s))
           /\ frames' = [frames EXCEPT ![Frame(s)].final_text = text]
           /\ IF ~has_tool_calls(reply)
              THEN tasks' = [tasks EXCEPT ![s].pc = "done", ![s].reply = reply,
                                          ![s].own = own,
                                          ![s].result = Returned(Join(text))]
              ELSE tasks' = [tasks EXCEPT ![s].pc = "tool", ![s].reply = reply,
                                          ![s].own = own]
    /\ UNCHANGED <<soloVars, model, chat_loop>>

\* call_tool returns to coroutine s: lines 67-76, then the next iteration
task_call_tool_returns(s) ==
    /\ tasks[s].pc = "tool"
    /\ LET tool_call == tool_call_at(tasks[s].reply, 1)
           trace == format_tool_result(tool_call.name, Decode(tool_call.arguments).value,
                                       OkResult)
       IN /\ Extend(<<ToolMessage(tool_call, OkResult)>>, TaskTag(s))
          /\ TaskNextIteration(s, Append(frames[Frame(s)].final_text, trace))
    /\ UNCHANGED <<soloVars, varied, model, chat_loop>>

\* the request coroutine s awaits raises: the exception leaves the invocation
task_raises(s) ==
    /\ tasks[s].pc \in {"context", "listing", "model", "tool"}
    /\ tasks' = [tasks EXCEPT ![s].pc = "done", ![s].result = Raised("Error")]
    /\ UNCHANGED <<soloVars, messages, origin, frames, varied, model, chat_loop>>

NextTasks ==
    \E s \in Slots :
        \/ task_process_query(s)
        \/ task_list_tools_returns(s)
        \/ task_chat_completion_returns(s)
        \/ task_call_tool_returns(s)
        \/ task_raises(s)

SpecTasks == InitTasks /\ [][NextTasks]_vars

(***************************************************************************)
(* MCPClient.chat_loop: one command after another from input().            *)
(***************************************************************************)
\* "query = input(...)" returns a line: the loop is there and the input has not ended
input_returns == chat_loop.at = "input" /\ chat_loop.stdin = "open"
\* the exceptions input() raises: a line that cannot be decoded, the end of the input
InputErrors == {"UnicodeDecodeError", "EOFError"}

\* a faulty loop that schedules the invocation and goes back to input()
NotAwaited(s) == At("input", 0)
\* "response = await self.process_query(query)": the loop is suspended on s
Awaited(s) == At("await", s)
\* the query with the text of the resources that look relevant put before it
EnhancedQuery == "Here are some relevant resources for context: ... User query: " \o UserText
\* the coroutine object the next invocation gets
FreeSlot == CHOOSE s \in Slots : ~Active(s) /\ \A t \in Slots : ~Active(t) => s <= t

\* the invocations whose first message the transcript holds
Started == Cardinality({i \in 1..Len(messages) : messages[i].role = "user"})

\* a query that is no command: MCPClient.process_query, awaited; with
\* auto_include_resources it first awaits the resource context
chat_loop_query ==
    /\ input_returns
    /\ \E s \in Slots : ~Active(s)
    /\ Started < MaxStart
    /\ IF chat_loop.auto_include_resources
       THEN /\ tasks' = [tasks EXCEPT ![FreeSlot] = [NoTask EXCEPT !.pc = "context",
                                                                   !.result = Running]]
            /\ UNCHANGED <<messages, origin, frames>>
       ELSE StartQuery(FreeSlot, UserText)
    /\ chat_loop' = Awaited(FreeSlot)
    /\ UNCHANGED <<soloVars, varied, model>>

\* add_resource_context returns the query, enhanced or as it was
task_add_resource_context_returns(s) ==
    /\ tasks[s].pc = "context"
    /\ \E enhanced_query \in {UserText, EnhancedQuery} :
        LET cost == IF enhanced_query = UserText THEN 0 ELSE 1
        IN /\ varied + cost <= MaxVaried
           /\ varied' = varied + cost
           /\ Extend(<<PlainMessage("user", enhanced_query)>>, TaskTag(s))
           /\ tasks' = [tasks EXCEPT ![s].pc = "listing"]
    /\ UNCHANGED <<soloVars, frames, model, chat_loop>>

\* "prompt <name>": MCPClient.use_prompt, awaited; it first awaits list_prompts
chat_loop_prompt ==
    /\ input_returns
    /\ \E s \in Slots : ~Active(s)
    /\ Started < MaxStart
    /\ tasks' = [tasks EXCEPT ![FreeSlot] = [NoTask EXCEPT !.pc = "prompts",
                                                            !.result = Running]]
    /\ chat_loop' = Awaited(FreeSlot)
    /\ UNCHANGED <<soloVars, messages, origin, frames, varied, model>>

\* list_prompts returns to use_prompt: the prompt is found or not
task_list_prompts_returns(s) ==
    /\ tasks[s].pc = "prompts"
    /\ \E found \in BOOLEAN :
        tasks' = [tasks EXCEPT ![s] =
                    IF found
                    THEN [@ EXCEPT !.pc = "prompt"]
                    ELSE [@ EXCEPT !.pc = "done",
                                   !.result = Returned("Prompt '" \o PromptName
                                                       \o "' not found.")]]
    /\ UNCHANGED <<soloVars, messages, origin, frames, varied, model, chat_loop>>

\* get_prompt returns to use_prompt: None, or the prompt whose messages are added
\* before process_from_existing_messages awaits the tool listing
task_get_prompt_returns(s) ==
    /\ tasks[s].pc = "prompt"
    /\ \E prompt_result \in {None, Some(PromptResult)} :
        IF prompt_result = None
        THEN /\ tasks' = [tasks EXCEPT ![s].pc = "done",
                                       ![s].result = Returned("Failed to get prompt.")]
             /\ UNCHANGED <<messages, origin>>
        ELSE /\ Extend(format_prompt_messages(prompt_result[1]), TaskTag(s))
             /\ tasks' = [tasks EXCEPT ![s].pc = "listing"]
    /\ UNCHANGED <<soloVars, frames, varied, model, chat_loop>>

\* the awaited invocation returned or raised: the loop prints and asks again
chat_loop_resumes ==
    /\ chat_loop.at = "await"
    /\ tasks[chat_loop.task].pc = "done"
    /\ chat_loop' = At("input", 0)
    /\ UNCHANGED <<soloVars, messages, origin, tasks, frames, varied, model>>

\* "clear": MCPClient.clear_chat_history
chat_loop_clear ==
    /\ input_returns
    /\ messages' = cleared(messages)
    /\ origin' = SubSeq(origin, 1, Len(cleared(messages)))
    /\ UNCHANGED <<soloVars, tasks, frames, varied, model, chat_loop>>

\* "model <name>": MCPClient.set_model
chat_loop_model ==
    /\ input_returns
    /\ varied < MaxVaried
    /\ varied' = varied + 1
    /\ \E name \in ModelNames : model' = name
    /\ UNCHANGED <<soloVars, messages, origin, tasks, frames, chat_loop>>

\* "resources", "read <uri>", "prompts": one awaited provider request
chat_loop_request ==
    /\ input_returns
    /\ chat_loop' = At("request", 0)
    /\ UNCHANGED <<soloVars, messages, origin, tasks, frames, varied, model>>

\* that request returned or raised: the loop prints and asks again
chat_loop_request_returns ==
    /\ chat_loop.at = "request"
    /\ chat_loop' = At("input", 0)
    /\ UNCHANGED <<soloVars, messages, origin, tasks, frames, varied, model>>

\* "auto-resources on/off"
chat_loop_auto_resources ==
    /\ input_returns
    /\ \E setting \in BOOLEAN : chat_loop' = [chat_loop EXCEPT !.auto_include_resources = setting]
    /\ UNCHANGED <<soloVars, messages, origin, tasks, frames, varied, model>>

\* input() raises: "except Exception" prints the error and the loop calls input()
\* again; after the end of the input every later call raises EOFError as well
\* (errors: whether the errors printed since the input ended are odd or even)
chat_loop_input_raises ==
    /\ chat_loop.at = "input"
    /\ \E e \in InputErrors :
        /\ chat_loop.stdin = "eof" => e = "EOFError"
        /\ chat_loop' = [chat_loop EXCEPT
                            !.stdin = IF e = "EOFError" THEN "eof" ELSE @,
                            !.errors = IF e = "EOFError" THEN 1 - @ ELSE @]
    /\ UNCHANGED <<soloVars, messages, origin, tasks, frames, varied, model>>

\* "quit"
chat_loop_quit ==
    /\ input_returns
    /\ chat_loop' = At("exited", 0)
    /\ UNCHANGED <<soloVars, messages, origin, tasks, frames, varied, model>>

NextChatLoop ==
    \/ chat_loop_query
    \/ chat_loop_prompt
    \/ chat_loop_resumes
    \/ chat_loop_clear
    \/ chat_loop_model
    \/ chat_loop_request
    \/ chat_loop_request_returns
    \/ chat_loop_auto_resources
    \/ chat_loop_input_raises
    \/ chat_loop_quit
    \/ \E s \in Slots :
        \/ task_add_resource_context_returns(s)
        \/ task_list_prompts_returns(s)
        \/ task_get_prompt_returns(s)
        \/ task_list_tools_returns(s)
        \/ task_chat_completion_returns(s)
        \/ task_call_tool_returns(s)
        \/ task_raises(s)

SpecChatLoop == InitTasks /\ [][NextChatLoop]_vars

\* the event loop runs what can run: an awaited request returns or raises, the
\* loop resumes, and a line is read when there is one
SpecChatLoopFair == SpecChatLoop /\ WF_vars(NextChatLoop)

(***************************************************************************)
(* Vocabulary of the properties.                                           *)
(***************************************************************************)
Invocations == {"process_query", "process_from_existing_messages"}
\* an orchestration invocation is the last operation called
Invoking == lastOp.op \in Invocations
\* the tool-call requests of a message or reply (none when the field is None)
CallsOf(m) == IF m.tool_calls = None THEN <<>> ELSE m.tool_calls[1]
IdsOf(m) == {CallsOf(m)[k].id : k \in 1..Len(CallsOf(m))}
\* the calls of the current reply whose tool message the loop has appended
Answered ==
    IF pc = "tool" THEN tc - 1
    ELSE IF pc = "model" /\ iteration > 0 THEN Len(CallsOf(assistant_message))
    ELSE 0
SystemCount == Cardinality({i \in 1..Len(messages) : messages[i].role = "system"})

(***************************************************************************)
(* C1: one invocation of _execute_with_tools terminates after at most 10   *)
(* Model Gateway calls, whatever the replies: no step brings the calls of  *)
(* an invocation above max_iterations, and every step of the loop that     *)
(* leaves it running (a reply that requests tools, a tool result) lowers a *)
(* positive measure of the work left, so the loop cannot run on.  (The     *)
(* provider changing its tool set is a step of the environment.)           *)
(***************************************************************************)
InLoop(at) == at \in {"model", "tool"}
\* the tool calls and replies the loop may still await, counted from above
WorkLeft(i, at, k) == (max_iterations - i) * (MaxCalls + 1) - (IF at = "tool" THEN k ELSE 0)
C1_BoundedGatewayCalls ==
    [][ /\ gatewayCalls' <= max_iterations
        /\ InLoop(pc') => gatewayCalls' = iteration' + 1
        /\ (InLoop(pc) /\ InLoop(pc') /\ provider_tools' = provider_tools) =>
              /\ WorkLeft(iteration', pc', tc') < WorkLeft(iteration, pc, tc)
              /\ WorkLeft(iteration', pc', tc') > 0 ]_vars
\* an invocation in which every reply requested tools has ended at the cap
C1_Witness ==
    /\ Invoking
    /\ result.status = "returned"
    /\ gatewayCalls = max_iterations
    /\ has_tool_calls(assistant_message)

(***************************************************************************)
(* C2: every tool message the loop appended is preceded in the transcript  *)
(* by an assistant message that requests a tool call with the same id.     *)
(***************************************************************************)
C2_ToolMessageHasRequest ==
    \A i \in 1..Len(messages) :
        (messages[i].role = "tool" /\ origin[i] = "loop") =>
            \E j \in 1..(i - 1) :
                /\ messages[j].role = "assistant"
                /\ messages[i].tool_call_id[1] \in IdsOf(messages[j])
\* the loop has appended the tool messages of a reply with several calls
C2_Witness ==
    \E i \in 1..Len(messages), j \in 1..Len(messages) :
        /\ i < j
        /\ messages[i].role = "tool" /\ origin[i] = "loop"
        /\ messages[j].role = "tool" /\ origin[j] = "loop"

(***************************************************************************)
(* C3: the calls of one reply are passed to call_tool in the order of the  *)
(* reply, their tool messages follow the assistant message in that order,  *)
(* and all of them are in the transcript when the next Model Gateway call  *)
(* is issued.                                                              *)
(***************************************************************************)
C3_OrderPreserved ==
    (pc = "tool" \/ (pc = "model" /\ iteration > 0)) =>
        LET calls == CallsOf(assistant_message)
            n == Len(messages)
        IN /\ invoked = [k \in 1..(IF pc = "tool" THEN tc ELSE Len(calls)) |-> calls[k].id]
           /\ n > Answered
           /\ messages[n - Answered] = model_dump(assistant_message)
           /\ \A k \in 1..Answered :
                /\ messages[n - Answered + k].role = "tool"
                /\ messages[n - Answered + k].tool_call_id = Some(calls[k].id)
           /\ pc = "model" => Answered = Len(calls)
\* the next Model Gateway call is issued after a reply that requested three calls
C3_Witness ==
    /\ pc = "model"
    /\ iteration > 0
    /\ Len(CallsOf(assistant_message)) = 3

(***************************************************************************)
(* C4: in a reply requesting [A, B, C], a failure of the provider at B     *)
(* does not raise out of _execute_with_tools.                              *)
(***************************************************************************)
C4_ProviderFailureContained ==
    (Invoking /\ Len(CallsOf(assistant_message)) = 3 /\ tc = 2) =>
        result # Raised("ToolError")

(***************************************************************************)
(* C5: a failure to decode the arguments of a tool call never escapes the  *)
(* loop.                                                                   *)
(***************************************************************************)
C5_DecodeFailureContained ==
    Invoking => result # Raised("JSONDecodeError")

(***************************************************************************)
(* C6: the transcript sent in a Model Gateway call is a valid role         *)
(* sequence, as long as only orchestration invocations have written to it: *)
(* an assistant message with tool-call requests is directly followed by    *)
(* one tool message per requested id, and every tool message is one of     *)
(* those.                                                                  *)
(***************************************************************************)
Requests(i) == messages[i].role = "assistant" /\ has_tool_calls(messages[i])
ValidRoleSequence ==
    /\ \A i \in 1..Len(messages) :
          Requests(i) =>
            LET n == Len(CallsOf(messages[i]))
            IN /\ i + n <= Len(messages)
               /\ \A k \in 1..n : messages[i + k].role = "tool"
               /\ \A id \in IdsOf(messages[i]) :
                    Cardinality({k \in 1..n : messages[i + k].tool_call_id = Some(id)}) = 1
    /\ \A i \in 1..Len(messages) :
          messages[i].role = "tool" =>
            \E j \in 1..(i - 1) :
                /\ Requests(j)
                /\ i - j <= Len(CallsOf(messages[j]))
OnlyInvocationsWrote == \A i \in 1..Len(origin) : origin[i] # "api"
C6_ValidTranscriptSent ==
    (pc = "model" /\ OnlyInvocationsWrote) => ValidRoleSequence

(***************************************************************************)
(* C7: when every reply requests one tool call, the invocation returns     *)
(* after exactly 10 Model Gateway calls and 10 tool invocations, and what  *)
(* it returns is the text accumulated so far.                              *)
(***************************************************************************)
C7_StopsAtCap ==
    (Invoking /\ onlySingles /\ result.status = "returned") =>
        /\ gatewayCalls = 10
        /\ toolCalls = 10
        /\ Len(final_text) >= 10
        /\ result.value = Join(final_text)
\* such an invocation has returned
C7_Witness ==
    /\ Invoking
    /\ onlySingles
    /\ result.status = "returned"
    /\ toolCalls = max_iterations

(***************************************************************************)
(* C8: the transcript holds at most one system message, and it is the      *)
(* first message of a non-empty transcript.                                *)
(***************************************************************************)
C8_SingleSystemMessage ==
    /\ SystemCount <= 1
    /\ messages # <<>> => messages[1].role = "system"

(***************************************************************************)
(* C9: setting a system message on a transcript that has one fails with    *)
(* InvalidStateError and adds no system message.                           *)
(***************************************************************************)
C9_SecondSystemRejected ==
    lastOp = Op("add_message", "system") =>
        /\ result = Raised("InvalidStateError")
        /\ SystemCount = 1

(***************************************************************************)
(* C10: clear_history leaves exactly the system message, and clearing a    *)
(* cleared transcript changes nothing.                                     *)
(***************************************************************************)
C10_ClearKeepsSystemIdempotent ==
    /\ cleared(messages) = <<PlainMessage("system", SystemPrompt)>>
    /\ cleared(cleared(messages)) = cleared(messages)
    /\ lastOp.op = "clear_history" => messages = <<PlainMessage("system", SystemPrompt)>>
\* clear_history has shortened a transcript
C10_Witness ==
    /\ lastOp = Op("clear_history", "shortened")
    /\ messages = <<PlainMessage("system", SystemPrompt)>>

(***************************************************************************)
(* C11: a failure of a Model Gateway call ends the invocation with that    *)
(* failure as its outcome: the step that takes it issues no Model Gateway  *)
(* call (no retry) and no tool call, and leaves nothing outstanding.       *)
(* (While chat_completion is awaited, a step that leaves the transcript    *)
(* as it is is the failure, or the provider changing its tools.)           *)
(***************************************************************************)
C11_GatewayFailurePropagates ==
    [][ /\ (pc = "model" /\ messages' = messages) =>
              /\ gatewayCalls' = gatewayCalls
              /\ toolCalls' = toolCalls
              /\ pc' # "model" => (pc' = "idle" /\ result' = Raised("APIError"))
        /\ result' = Raised("APIError") =>
              /\ pc' = "idle"
              /\ inflight' = {}
              /\ gatewayCalls' = iteration' + 1 ]_vars
\* a Model Gateway call has failed in a later iteration, after tool calls
C11_Witness ==
    /\ Invoking
    /\ result = Raised("APIError")
    /\ iteration > 0
    /\ toolCalls > 0

(***************************************************************************)
(* C12: a reply without tool-call requests is appended as one assistant    *)
(* message, no tool is invoked, no further Model Gateway call is issued    *)
(* and the invocation returns; when it is the first reply and it carries   *)
(* the text T, the invocation returns exactly T after one iteration.       *)
(***************************************************************************)
C12_NoToolCallsReturns ==
    [][ (pc = "model" /\ messages' # messages /\ CallsOf(assistant_message') = <<>>) =>
          /\ messages' = Append(messages, model_dump(assistant_message'))
          /\ toolCalls' = toolCalls
          /\ inflight' = {}
          /\ gatewayCalls' = gatewayCalls
          /\ pc' = "idle"
          /\ result'.status = "returned"
          /\ (iteration = 0 /\ TruthyStr(assistant_message'.content)) =>
                /\ result' = Returned(assistant_message'.content[1])
                /\ gatewayCalls' = 1 ]_vars
\* the first reply was a text without tool calls, and the invocation returned it
C12_Witness ==
    /\ Invoking
    /\ iteration = 0
    /\ assistant_message = [content |-> Some(ReplyText), tool_calls |-> None]
    /\ result = Returned(ReplyText)

(***************************************************************************)
(* C13: a reply whose tool_calls is an empty list is handled like a reply  *)
(* without tool_calls: the assistant message is appended, no tool is       *)
(* invoked, no further Model Gateway call is issued and the invocation     *)
(* returns the accumulated text.                                           *)
(***************************************************************************)
C13_EmptyToolCallsIsDone ==
    [][ (pc = "model" /\ messages' # messages /\ assistant_message'.tool_calls = Some(<<>>)) =>
          /\ messages' = Append(messages, model_dump(assistant_message'))
          /\ pc' = "idle"
          /\ result' = Returned(Join(final_text'))
          /\ final_text' = WithContent(final_text, [content |-> assistant_message'.content,
                                                    tool_calls |-> None])
          /\ toolCalls' = toolCalls
          /\ gatewayCalls' = gatewayCalls
          /\ iteration' = iteration ]_vars
\* an invocation has returned on a reply with an empty tool_calls list
C13_Witness ==
    /\ Invoking
    /\ pc = "idle"
    /\ assistant_message.tool_calls = Some(<<>>)
    /\ result.status = "returned"
    /\ messages[Len(messages)] = model_dump(assistant_message)

(***************************************************************************)
(* C14: the returned text is the newline-join, in the order of the         *)
(* transcript, of the non-empty text of each reply followed by one trace   *)
(* line per tool call dispatched for it; a tool-requesting reply with text *)
(* followed by a final reply with text gives text1, one trace line, text2  *)
(* after 2 Model Gateway calls.                                            *)
(***************************************************************************)
\* the request answered by the tool message at i: it is in the last assistant message
\* before i
RequestOf(i) ==
    LET j == CHOOSE j \in 1..(i - 1) :
                 /\ messages[j].role = "assistant"
                 /\ \A l \in (j + 1)..(i - 1) : messages[l].role # "assistant"
        calls == CallsOf(messages[j])
    IN calls[CHOOSE k \in 1..Len(calls) : Some(calls[k].id) = messages[i].tool_call_id]
\* the output segments that stand for message i of the transcript
SegmentsOf(i) ==
    IF messages[i].role = "assistant"
    THEN (IF TruthyStr(messages[i].content) THEN <<messages[i].content[1]>> ELSE <<>>)
    ELSE IF messages[i].role = "tool"
    THEN <<format_tool_result(RequestOf(i).name, Decode(RequestOf(i).arguments).value, "")>>
    ELSE <<>>
RECURSIVE SegmentsUpTo(_)
\* the segments of the messages the running invocation has appended up to message i
SegmentsUpTo(i) == IF i <= base THEN <<>> ELSE SegmentsUpTo(i - 1) \o SegmentsOf(i)
C14_OutputIsChronologicalJoin ==
    (Invoking /\ gatewayCalls > 0) =>
        /\ final_text = SegmentsUpTo(Len(messages))
        /\ result.status = "returned" => result.value = Join(final_text)
        /\ (/\ result.status = "returned"
            /\ Len(messages) = base + 3
            /\ messages[base + 1].content = Some(ReplyText)
            /\ CallsOf(messages[base + 1])[1].name = KnownTool
            /\ Decode(CallsOf(messages[base + 1])[1].arguments).value = PyDict("{}")
            /\ messages[base + 3].content = Some(ReplyText)) =>
              /\ result.value = "Here is the forecast\n[Calling tool get_forecast with args {}]\nHere is the forecast"
              /\ gatewayCalls = 2
\* a reply with text and one tool call, then a final reply with text, has been returned
C14_Witness ==
    /\ Invoking
    /\ result.status = "returned"
    /\ gatewayCalls = 2
    /\ toolCalls = 1
    /\ final_text = <<ReplyText, "[Calling tool get_forecast with args {}]", ReplyText>>

(***************************************************************************)
(* C15: when the provider does not know the requested tool and reports an  *)
(* error result, the tool message of that call id carries the content of   *)
(* the error, and the loop goes on: to the next call of the reply, or,     *)
(* after the last one, to the next Model Gateway call.                     *)
(***************************************************************************)
C15_UnknownToolContinues ==
    [][ (/\ pc = "tool"
         /\ messages' # messages
         /\ tool_call_at(assistant_message, tc).name \notin ToolNames(provider_tools)) =>
          LET tool_call == tool_call_at(assistant_message, tc)
              calls == CallsOf(assistant_message)
          IN /\ messages' = Append(messages,
                   Message("tool", Some("[TextContent(text='Error executing tool')]"), None,
                           Some(tool_call.id)))
             /\ tc < Len(calls) => tc' = tc + 1
             /\ (tc = Len(calls) /\ iteration + 1 < max_iterations) =>
                   /\ pc' = "model"
                   /\ result' = Running
                   /\ iteration' = iteration + 1
                   /\ gatewayCalls' = gatewayCalls + 1 ]_vars
\* the next Model Gateway call has been issued after the error result of an unknown tool
C15_Witness ==
    /\ pc = "model"
    /\ iteration > 0
    /\ CallsOf(assistant_message)[Len(CallsOf(assistant_message))].name = UnknownTool
    /\ messages[Len(messages)].role = "tool"
    /\ messages[Len(messages)].content = Some(str(ErrResult.content))

(***************************************************************************)
(* C16: a Model Gateway request carries no tools parameter exactly when    *)
(* the schema of the invocation is empty, and the whole schema otherwise;  *)
(* it never carries an empty list.                                         *)
(***************************************************************************)
C16_ToolsOmittedWhenEmpty ==
    gatewayCalls > 0 =>
        /\ request.tools # Some(<<>>)
        /\ (request.tools = None) <=> (available_tools = <<>>)
        /\ request.tools # None => request.tools[1] = available_tools
\* a second Model Gateway request of an invocation whose schema is empty
C16_Witness ==
    /\ pc = "model"
    /\ iteration > 0
    /\ available_tools = <<>>
    /\ request.tools = None

(***************************************************************************)
(* C17: an invocation issues one tool-listing request, before its first    *)
(* Model Gateway call; the schema is what the provider advertises when     *)
(* the listing returns (nothing is kept from an earlier invocation), and   *)
(* every Model Gateway call of the invocation carries that schema.         *)
(***************************************************************************)
C17_OneListingPerInvocation ==
    [][ /\ pc' = "listing" => (listings' = 1 /\ gatewayCalls' = 0)
        /\ gatewayCalls' > 0 => listings' = 1
        /\ listings' <= 1
        /\ (pc = "listing" /\ pc' = "model") =>
              available_tools' = get_tools_for_openai(provider_tools)
        /\ (InLoop(pc) /\ InLoop(pc')) =>
              (available_tools' = available_tools /\ listings' = listings)
        /\ InLoop(pc') => request'.tools = tools_param(available_tools') ]_vars
\* a later invocation is listing the tools and the provider no longer advertises the
\* tools listed by the invocation before it
C17_Witness ==
    /\ pc = "listing"
    /\ available_tools # <<>>
    /\ available_tools # get_tools_for_openai(provider_tools)

(***************************************************************************)
(* C18: at most one request is outstanding on the provider session at any  *)
(* time: the listing while it is awaited, the tool call in flight while it *)
(* is awaited (the calls before it in the reply have returned), nothing    *)
(* while the Model Gateway is awaited or no invocation runs.               *)
(***************************************************************************)
C18_OneProviderRequestAtATime ==
    /\ Cardinality(inflight) <= 1
    /\ pc = "listing" => inflight = {ListToolsRequest}
    /\ pc = "tool" => inflight = {CallToolRequest(CallsOf(assistant_message)[tc].id)}
    /\ pc \in {"idle", "model"} => inflight = {}
\* the third tool call of a reply is the one request outstanding
C18_Witness ==
    /\ pc = "tool"
    /\ tc = 3
    /\ inflight = {CallToolRequest(CallsOf(assistant_message)[3].id)}

(***************************************************************************)
(* C19: a tool listing requested while the provider session is not         *)
(* connected fails with ProviderUnavailableError, and the invocation       *)
(* issues no Model Gateway call.                                           *)
(***************************************************************************)
C19_UnconnectedListingFails ==
    (Invoking /\ session = None) =>
        /\ result = Raised("ProviderUnavailableError")
        /\ gatewayCalls = 0

(***************************************************************************)
(* C20: MCPClient.process_query and MCPClient.use_prompt, called before    *)
(* connect_to_server has succeeded, fail with the RuntimeError of the      *)
(* guard: nothing is appended to the transcript and no request goes to     *)
(* the provider or to the Model Gateway.                                   *)
(***************************************************************************)
ClientOps == {"MCPClient.process_query", "MCPClient.use_prompt"}
C20_RejectedBeforeConnect ==
    [][ (chat_processor = None /\ lastOp'.op \in ClientOps) =>
          /\ messages' = messages
          /\ result' = Raised("RuntimeError")
          /\ pc' = "idle"
          /\ inflight' = {}
          /\ listings' = 0
          /\ gatewayCalls' = 0
          /\ toolCalls' = 0 ]_vars
\* use_prompt has been rejected on a client whose connect_to_server has failed
C20_Witness ==
    /\ lastOp = Op("MCPClient.use_prompt", PromptName)
    /\ chat_processor = None
    /\ session # None
    /\ result = Raised("RuntimeError")

(***************************************************************************)
(* C21: get_tools_for_openai returns one function-schema entry per tool    *)
(* the provider has listed, in the same order, with the name, description  *)
(* and parameter schema of that tool; no tools give an empty collection.   *)
(***************************************************************************)
C21_SchemaEntryPerTool ==
    [][ (pc = "listing" /\ pc' = "model") =>
          /\ Len(available_tools') = Len(provider_tools)
          /\ \A k \in 1..Len(provider_tools) :
                /\ available_tools'[k].type = "function"
                /\ available_tools'[k].function.name = provider_tools[k].name
                /\ available_tools'[k].function.description = provider_tools[k].description
                /\ available_tools'[k].function.parameters = provider_tools[k].inputSchema
          /\ provider_tools = <<>> => available_tools' = <<>> ]_vars
\* the schema of a provider that advertises two tools has been listed
C21_Witness ==
    /\ pc = "model"
    /\ Len(available_tools) = 2
    /\ available_tools[1].function.name = "get_forecast"
    /\ available_tools[2].function.name = "get_alerts"

(***************************************************************************)
(* C22: the arguments of every call passed to ToolManager.call_tool are a  *)
(* mapping, whatever JSON text the model has supplied.                     *)
(***************************************************************************)
C22_ArgumentsAreMappings ==
    pc = "tool" => tool_args.type = "dict"

(***************************************************************************)
(* C23: the messages of a Model Gateway request are the whole transcript   *)
(* as it is when the call is made, and the transcript stays as it is while *)
(* the request is in flight.                                               *)
(***************************************************************************)
C23_FullTranscriptSent ==
    pc = "model" => request.messages = messages
\* a later request of an invocation is in flight, with the tool messages in it
C23_Witness ==
    /\ pc = "model"
    /\ iteration > 0
    /\ Len(request.messages) >= 4
    /\ request.messages[Len(request.messages)].role = "tool"

(***************************************************************************)
(* C24: while the calls of a reply are dispatched (a call is in flight, or *)
(* the dispatch has ended in a failure), the transcript holds the          *)
(* assistant message of that reply with its tool-call requests, appended   *)
(* by this invocation before the tool messages of the calls already made.  *)
(***************************************************************************)
Dispatching ==
    /\ Invoking
    /\ \/ pc = "tool"
       \/ result = Raised("JSONDecodeError")
       \/ result = Raised("ToolError")
C24_AssistantAppendedBeforeDispatch ==
    Dispatching =>
        LET i == Len(messages) - (tc - 1)
        IN /\ i > base
           /\ origin[i] = "loop"
           /\ messages[i].role = "assistant"
           /\ messages[i].content = assistant_message.content
           /\ messages[i].tool_calls = assistant_message.tool_calls
           /\ messages[i].tool_calls # None
\* the first call of a reply is in flight and the assistant message is the last message
C24_Witness ==
    /\ pc = "tool"
    /\ tc = 1
    /\ messages[Len(messages)].role = "assistant"
    /\ messages[Len(messages)].tool_calls = assistant_message.tool_calls

(***************************************************************************)
(* C25: every Model Gateway request of an invocation, started from a query *)
(* or from a prompt, names the model configured on the LLMClient (the      *)
(* constructor value or the last set_model).                               *)
(***************************************************************************)
C25_ConfiguredModelSent ==
    gatewayCalls > 0 => request.model = model
\* a request of an invocation started from a prompt names the model set by set_model
C25_Witness ==
    /\ pc = "model"
    /\ \E i \in 1..Len(origin) : origin[i] = "prompt"
    /\ model = OtherModel
    /\ request.model = OtherModel

(***************************************************************************)
(* C28: the transcript is append-only: a step keeps every message where it *)
(* is and as it is, in an invocation and outside; only clear_history       *)
(* shortens the transcript.                                                *)
(***************************************************************************)
IsPrefix(a, b) == Len(a) <= Len(b) /\ SubSeq(b, 1, Len(a)) = a
C28_AppendOnly ==
    [][ /\ (pc # "idle" \/ pc' # "idle") => IsPrefix(messages, messages')
        /\ lastOp'.op # "clear_history" => IsPrefix(messages, messages')
        /\ Len(messages') < Len(messages) => lastOp'.op = "clear_history" ]_vars
\* an invocation has appended a reply, a tool message and a final reply and returned
C28_Witness ==
    /\ Invoking
    /\ result.status = "returned"
    /\ Len(messages) >= base + 3

(***************************************************************************)
(* C26: in the monolithic client, every Model Gateway request of a         *)
(* process_query_from_messages invocation names the model that the         *)
(* requests of process_query name.                                         *)
(***************************************************************************)
C26_SameModelAsProcessQuery ==
    (lastOp.op = "client.process_query_from_messages" /\ gatewayCalls > 0) =>
        request.model = QueryModel

(***************************************************************************)
(* C27: in the monolithic client, a process_query invocation sends at most *)
(* 10 Model Gateway requests, and the reply to every one of them is in the *)
(* transcript and in the returned text when the invocation returns, also   *)
(* at the iteration cap.                                                   *)
(***************************************************************************)
C27_ClientTenRequestsAllUsed ==
    lastOp.op = "client.process_query" =>
        /\ gatewayCalls <= 10
        /\ (result.status = "returned" /\ gatewayCalls > 0) =>
              /\ messages[Len(messages)] = model_dump(assistant_message)
              /\ TruthyStr(assistant_message.content) =>
                    final_text[Len(final_text)] = assistant_message.content[1]

\* the segments the replies and tool calls of coroutine s can produce
OwnSegments(s) ==
    {TextFor(s)}
    \cup { format_tool_result(ToolFor(s), PyDict(MappingText), r) : r \in {OkResult} }
Entered(s) == tasks[s].pc \in {"model", "tool"} \/ (tasks[s].pc = "done" /\ tasks[s].calls > 0)

\* C29: the iteration counter and the output segments of an invocation are its own.
\* After its locals are set, the counter of invocation s is the number of gateway
\* requests it issued itself, less the first, and its output segments are exactly
\* those of its own replies and tool calls, each one of its own texts; what it
\* returns is the join of them.  A step of the other invocation leaves them as they
\* were.
C29_LoopStatePrivate ==
    [][\A s \in Slots :
          /\ Entered(s)' =>
                /\ frames'[s].iteration = tasks'[s].calls - 1
                /\ frames'[s].final_text = tasks'[s].own
                /\ \A i \in 1..Len(frames'[s].final_text) :
                      frames'[s].final_text[i] \in OwnSegments(s)
                /\ tasks'[s].result.status = "returned" =>
                      tasks'[s].result.value = Join(tasks'[s].own)
          /\ \A t \in Slots \ {s} :
                (tasks'[t] # tasks[t] /\ tasks'[s] = tasks[s]) => frames'[s] = frames[s]]_vars
\* two invocations that interleaved on the transcript have both returned, each
\* after a tool call of its own
C29_Witness ==
    /\ \A s \in Slots : /\ tasks[s].pc = "done"
                        /\ tasks[s].result.status = "returned"
                        /\ Len(tasks[s].own) > 1
    /\ \E i, j, k \in 1..Len(messages) :
          /\ i < j /\ j < k
          /\ origin[i] = TaskTag(1) /\ origin[j] = TaskTag(2) /\ origin[k] = TaskTag(1)

\* C30: chat_loop handles its commands one after another.  While the loop is at
\* input(), at a provider request or has exited, no orchestration invocation is
\* active, and while it awaits one, no other is: at most one invocation is active on
\* the transcript and the provider session.  An invocation is started only when every
\* earlier one has returned or raised.
C30_OneInvocationAtATime ==
    [][/\ Cardinality({s \in Slots : Active(s)'}) <= 1
       /\ \A s \in Slots : Active(s)' => (chat_loop'.at = "await" /\ chat_loop'.task = s)
       /\ \A s \in Slots :
             (~Active(s) /\ Active(s)') =>
                \A t \in Slots : tasks[t].result.status \in {"returned", "raised"}]_vars
\* a second query is being processed after an earlier one was answered
C30_Witness ==
    /\ chat_loop.at = "await"
    /\ tasks[chat_loop.task].pc = "model"
    /\ tasks[chat_loop.task].calls = 1
    /\ \E i, j \in 1..Len(messages) :
          /\ i < j
          /\ messages[i].role = "assistant" /\ origin[i] = TaskTag(chat_loop.task)
          /\ messages[j].role = "user" /\ origin[j] = TaskTag(chat_loop.task)

\* C32: every tool message the loop stored has text content.  Its content is present
\* and is the text form str(payload) of a payload the provider returned, also when
\* that payload is no list of content blocks (None is stored as the text "None").
C32_ToolContentIsText ==
    \A i \in 1..Len(messages) :
        (messages[i].role = "tool" /\ origin[i] = "loop") =>
            /\ messages[i].content # None
            /\ messages[i].content[1] \in
                  {str(res.content) : res \in {OkResult, ErrResult, NoneResult}}
\* the loop stored the result of a call whose payload was None
C32_Witness ==
    \E i \in 1..Len(messages) :
        /\ messages[i].role = "tool" /\ origin[i] = "loop"
        /\ messages[i].content = Some("None")

\* the transcript as it was before the last process_query added its query
TranscriptBefore ==
    LET Q == {i \in 1..Len(messages) : origin[i] = "query"}
    IN IF Q = {} THEN messages
       ELSE SubSeq(messages, 1, (CHOOSE q \in Q : \A r \in Q : r <= q) - 1)

\* C33: a process_query invocation that ended with an error (the listing, a Model
\* Gateway call or a tool dispatch raised) has left the transcript as it was before
\* the invocation started.
C33_ErrorLeavesTranscript ==
    (lastOp.op = "process_query" /\ result.status = "raised") => messages = TranscriptBefore

\* C34: process_query appends exactly one user message, the query, in the step that
\* issues its first request, when no Model Gateway request has been made;
\* process_from_existing_messages appends nothing when it starts; and while either
\* invocation runs the transcript grows only at its end and only by assistant and
\* tool messages.
C34_OneUserMessageFirst ==
    [][/\ (pc = "idle" /\ lastOp'.op = "process_query" /\ provider_tools' = provider_tools) =>
            /\ messages' = Append(messages, PlainMessage("user", lastOp'.arg))
            /\ gatewayCalls' = 0
       /\ (pc = "idle" /\ lastOp'.op = "process_from_existing_messages"
             /\ provider_tools' = provider_tools) =>
            /\ messages' = messages
            /\ gatewayCalls' = 0
       /\ (pc \in {"listing", "model", "tool"} /\ lastOp.op \in Invocations) =>
            /\ IsPrefix(messages, messages')
            /\ \A i \in (Len(messages) + 1)..Len(messages') :
                  messages'[i].role \in {"assistant", "tool"}]_vars
\* process_from_existing_messages has run its loop through a tool call on a
\* transcript that holds the query of an earlier process_query
C34_Witness ==
    /\ lastOp.op = "process_from_existing_messages"
    /\ result.status = "returned"
    /\ \E i, j \in 1..Len(messages) :
          /\ i <= base /\ origin[i] = "query" /\ messages[i].role = "user"
          /\ j > base /\ origin[j] = "loop" /\ messages[j].role = "tool"

\* C35: use_prompt.  When the prompt is not advertised (or the listing of the prompts
\* failed) or fetching it fails, use_prompt returns a message, the transcript is as
\* it was and no Model Gateway call is made.  When the prompt is fetched, its messages
\* are appended to the transcript in the order the provider gave them, each with its
\* role and its text (or the text form of a content without text), and no Model
\* Gateway call has been made by then.
C35_UsePrompt ==
    [][/\ (pc = "prompts" /\ pc' = "idle") =>
            /\ result' = Returned("Prompt '" \o PromptName \o "' not found.")
            /\ messages' = messages
            /\ gatewayCalls' = 0
       /\ (pc = "prompt" /\ pc' = "idle" /\ result'.status = "returned") =>
            /\ result'.value = "Failed to get prompt."
            /\ messages' = messages
            /\ gatewayCalls' = 0
       /\ (pc = "prompt" /\ pc' # "prompt" /\ ~(pc' = "idle" /\ result'.status = "returned")) =>
            /\ Len(messages') = Len(messages) + Len(PromptResult)
            /\ IsPrefix(messages, messages')
            /\ \A k \in 1..Len(PromptResult) :
                  LET m == messages'[Len(messages) + k]
                  IN /\ m.role = PromptResult[k].role
                     /\ m.content = Some(IF PromptResult[k].content.text # None
                                         THEN PromptResult[k].content.text[1]
                                         ELSE PromptResult[k].content.repr)
            /\ gatewayCalls' = 0]_vars
\* the Model Gateway has been called on a transcript that ends with the two
\* messages of the prompt
C35_Witness ==
    /\ lastOp.op = "process_from_existing_messages"
    /\ pc = "model"
    /\ gatewayCalls = 1
    /\ Len(messages) >= Len(PromptResult)
    /\ origin[Len(messages)] = "prompt"
    /\ origin[Len(messages) - 1] = "prompt"

\* the tool messages the running invocation has appended
ToolMessagesAppended ==
    Cardinality({i \in (base + 1)..Len(messages) : messages[i].role = "tool"})
\* the calls of the running invocation the provider has returned a result for: the
\* calls awaited, less the one being awaited
CallsReturned == toolCalls - (IF pc = "tool" THEN 1 ELSE 0)
\* the segments of the output that are no text of a reply
TraceLines == Cardinality({i \in 1..Len(final_text) : final_text[i] # ReplyText})

\* C36: at every await of _execute_with_tools (of a reply, of a tool result) the tool
\* messages appended during the invocation, the tool calls that have returned during
\* it and the trace lines of the output so far are equally many.
C36_ToolCallsRecordedOnce ==
    pc \in {"model", "tool"} =>
        /\ ToolMessagesAppended = CallsReturned
        /\ CallsReturned = TraceLines
\* the loop awaits a reply after the results of several calls, one of them an error
C36_Witness ==
    /\ pc = "model"
    /\ CallsReturned >= 2
    /\ \E i \in (base + 1)..Len(messages) :
          messages[i].role = "tool" /\ messages[i].content = Some(str(ErrResult.content))

\* the loop reads a command and handles it or starts to
CommandRead == input_returns /\ NextChatLoop

\* C31: chat_loop ends only on 'quit' and nothing stalls it.  The loop leaves an
\* await only for the next input(), whether the command returned or raised; it
\* ends only from input(), never inside a command; and, the requests returning or
\* raising in the end, either the loop ends or it reads commands again and again,
\* also after input() has failed.
C31_LoopEndsOnlyOnQuit ==
    /\ [][/\ (chat_loop.at \in {"await", "request"} /\ chat_loop'.at # chat_loop.at) =>
                chat_loop'.at = "input"
          /\ (chat_loop.at # "exited" /\ chat_loop'.at = "exited") => input_returns]_vars
    /\ (<>[](chat_loop.at = "exited") \/ []<><<CommandRead>>_vars)
====
